---- MODULE Spec2Model ----
(***************************************************************************)
(* The catalog controllers of express-locallibrary-tutorial (Author,       *)
(* Genre, Book, BookInstance) as a state machine over a document store.    *)
(*                                                                         *)
(* A string is a sequence of one-character strings.  A value of req.body   *)
(* is a tagged record (Undefined, Null, Str, DateV, Arr).  An ObjectId is  *)
(* one character of IdSeq; its string form is the one-character string.    *)
(* A document is a record whose DOMAIN holds the paths that are set.       *)
(***************************************************************************)
EXTENDS Integers, Sequences, FiniteSets, TLC

VARIABLES
    authors,        \* the Author collection: _id -> document
    genres,         \* the Genre collection
    books,          \* the Book collection
    bookinstances,  \* the BookInstance collection
    nextId,         \* index in IdSeq of the next ObjectId the driver generates
    request,        \* the request handled last: handler, params, body
    calls           \* what its handler called on res/next, in order

vars == <<authors, genres, books, bookinstances, nextId, request, calls>>

store == <<authors, genres, books, bookinstances>>

\* The number of ObjectIds the driver can generate in a run.
MaxId == 2

IdSeq == <<"1", "2", "3", "4", "5", "6">>

Ids == {IdSeq[i] : i \in 1..MaxId}

-----------------------------------------------------------------------------
(* Characters and strings                                                  *)

UpperSeq == <<"A","B","C","D","E","F","G","H","I","J","K","L","M",
              "N","O","P","Q","R","S","T","U","V","W","X","Y","Z">>

LowerSeq == <<"a","b","c","d","e","f","g","h","i","j","k","l","m",
              "n","o","p","q","r","s","t","u","v","w","x","y","z">>

DigitSeq == <<"0","1","2","3","4","5","6","7","8","9">>

Range(f) == {f[i] : i \in DOMAIN f}

Digits == Range(DigitSeq)

Letters == Range(UpperSeq) \cup Range(LowerSeq)

Whitespace == {" ", "\t", "\n"}

\* The characters of the model in ASCII order (the store's binary sort order).
AsciiSeq == <<"\t", "\n", " ", "\"", "#", "&", "'", "/">> \o DigitSeq
            \o <<";", "<", ">">> \o UpperSeq \o LowerSeq

CharCode(c) == CHOOSE i \in DOMAIN AsciiSeq : AsciiSeq[i] = c

RECURSIVE StrLess(_, _)
StrLess(s, t) ==
    IF t = <<>> THEN FALSE
    ELSE IF s = <<>> THEN TRUE
    ELSE IF Head(s) = Head(t) THEN StrLess(Tail(s), Tail(t))
    ELSE CharCode(Head(s)) < CharCode(Head(t))

StrLeq(s, t) == s = t \/ StrLess(s, t)

RECURSIVE Flatten(_)
Flatten(ss) == IF ss = <<>> THEN <<>> ELSE Head(ss) \o Flatten(Tail(ss))

-----------------------------------------------------------------------------
(* JavaScript values of req.body                                           *)

Undefined == [t |-> "undefined"]

Null == [t |-> "null"]

Str(s) == [t |-> "string", s |-> s]

DateV(s) == [t |-> "date", s |-> s]

Arr(a) == [t |-> "array", a |-> a]

IsArray(v) == v.t = "array"

\* !value
Falsy(v) == v.t \in {"undefined", "null"} \/ (v.t = "string" /\ v.s = <<>>)

\* express-validator's toString: what a standard validator or sanitizer is given.
toString(v) ==
    CASE v.t = "string" -> v.s
      [] v.t = "date" -> v.s
      [] v.t = "array" ->
            IF v.a # <<>> /\ Head(v.a).t = "string" THEN Head(v.a).s ELSE <<>>
      [] OTHER -> <<>>

-----------------------------------------------------------------------------
(* validator.js                                                            *)

RECURSIVE LTrim(_)
LTrim(s) == IF s # <<>> /\ Head(s) \in Whitespace THEN LTrim(Tail(s)) ELSE s

RECURSIVE RTrim(_)
RTrim(s) ==
    IF s # <<>> /\ s[Len(s)] \in Whitespace
    THEN RTrim(SubSeq(s, 1, Len(s) - 1))
    ELSE s

Trim(s) == RTrim(LTrim(s))

\* escape: the replacements of the characters of the model (backslash and
\* backquote, which it replaces too, are not among them).
EscapeChar(c) ==
    CASE c = "&" -> <<"&", "a", "m", "p", ";">>
      [] c = "\"" -> <<"&", "q", "u", "o", "t", ";">>
      [] c = "'" -> <<"&", "#", "x", "2", "7", ";">>
      [] c = "<" -> <<"&", "l", "t", ";">>
      [] c = ">" -> <<"&", "g", "t", ";">>
      [] c = "/" -> <<"&", "#", "x", "2", "F", ";">>
      [] OTHER -> <<c>>

Escape(s) == Flatten([i \in DOMAIN s |-> EscapeChar(s[i])])

IsLength(s, min) == Len(s) >= min

IsAlphanumeric(s) == s # <<>> /\ \A i \in DOMAIN s : s[i] \in Letters \cup Digits

\* isISO8601 (not strict) on the strings of the model, none longer than a
\* year: of those the expression accepts exactly the four-digit year.
IsISO8601(s) == Len(s) = 4 /\ \A i \in DOMAIN s : s[i] \in Digits

\* toDate: new Date(s) when Date.parse(s) is a number, otherwise null.
ToDate(s) == IF IsISO8601(s) THEN DateV(s) ELSE Null

-----------------------------------------------------------------------------
(* express-validator: a chain is the items of one body(...) call, run in   *)
(* order on the field's current value; every failing validator adds its    *)
(* error (no bail), every sanitizer writes the new value back to req.body. *)

Sanitizers == {"trim", "escape", "toDate"}

DefaultMessage == "Invalid value"

Item(k) == [k |-> k]

IsLengthItem(min) == [k |-> "isLength", min |-> min]

WithMessage(item, msg) == [f \in DOMAIN item \cup {"msg"} |->
                              IF f = "msg" THEN msg ELSE item[f]]

\* body(field, message): the message of the validators that set none.
Chain(field, message, optional, items) ==
    [field |-> field, message |-> message, optional |-> optional, items |-> items]

Sanitize(item, v) ==
    LET one(x) == CASE item.k = "trim" -> Str(Trim(toString(x)))
                    [] item.k = "escape" -> Str(Escape(toString(x)))
                    [] item.k = "toDate" -> ToDate(toString(x))
    IN  IF IsArray(v) THEN Arr([i \in DOMAIN v.a |-> one(v.a[i])]) ELSE one(v)

Validate(item, v) ==
    LET one(x) == CASE item.k = "isLength" -> IsLength(toString(x), item.min)
                    [] item.k = "isAlphanumeric" -> IsAlphanumeric(toString(x))
                    [] item.k = "isISO8601" -> IsISO8601(toString(x))
    IN  IF IsArray(v) THEN \A i \in DOMAIN v.a : one(v.a[i]) ELSE one(v)

\* RunItem of a chain that stops at its first error, as with bail().
RunItemBail(chain, item, st) ==
    IF st.errors # <<>> \/ (chain.optional /\ Falsy(st.v)) THEN st
    ELSE IF item.k \in Sanitizers THEN [st EXCEPT !.v = Sanitize(item, st.v)]
    ELSE IF Validate(item, st.v) THEN st
    ELSE [st EXCEPT !.errors = Append(@,
            [path |-> chain.field, value |-> st.v,
             msg |-> IF "msg" \in DOMAIN item THEN item.msg ELSE chain.message])]

\* One item of a chain on the running state [v, errors].
RunItem(chain, item, st) ==
    IF chain.optional /\ Falsy(st.v) THEN st
    ELSE IF item.k \in Sanitizers THEN [st EXCEPT !.v = Sanitize(item, st.v)]
    ELSE IF Validate(item, st.v) THEN st
    ELSE [st EXCEPT !.errors = Append(@,
            [path |-> chain.field, value |-> st.v,
             msg |-> IF "msg" \in DOMAIN item THEN item.msg ELSE chain.message])]

RECURSIVE RunItems(_, _, _)
RunItems(chain, items, st) ==
    IF items = <<>> THEN st
    ELSE RunItems(chain, Tail(items), RunItem(chain, Head(items), st))

RunChain(chain, v) == RunItems(chain, chain.items, [v |-> v, errors |-> <<>>])

\* The chains of a route in order: [body, errors] after the last one.
RECURSIVE RunChains(_, _)
RunChains(chains, st) ==
    IF chains = <<>> THEN st
    ELSE LET c == Head(chains)
             r == RunChain(c, st.body[c.field])
         IN  RunChains(Tail(chains),
                 [body |-> [st.body EXCEPT ![c.field] = r.v],
                  errors |-> st.errors \o r.errors])

validationResult(chains, body) == RunChains(chains, [body |-> body, errors |-> <<>>])

-----------------------------------------------------------------------------
(* The store (mongoose over a document collection)                         *)

EmptyCollection == [i \in {} |-> i]

\* null, where a document was asked for
NullDoc == [null |-> TRUE]

IsNull(doc) == "null" \in DOMAIN doc

IdIndex(id) == CHOOSE i \in DOMAIN IdSeq : IdSeq[i] = id

\* The ObjectId that new Model() generates when it is given none.
NewObjectId == IdSeq[nextId]

IsObjectIdString(s) == Len(s) = 1 /\ s[1] \in Range(IdSeq)

\* Whether mongoose casts the value to an ObjectId (otherwise a CastError is
\* kept for validation and the path stays unset).
CastsToObjectId(v) == v.t = "string" /\ IsObjectIdString(v.s)

RECURSIVE SeqOfIds(_)
SeqOfIds(S) ==
    IF S = {} THEN <<>>
    ELSE LET m == CHOOSE i \in S : \A j \in S : IdIndex(i) <= IdIndex(j)
         IN  <<m>> \o SeqOfIds(S \ {m})

\* Model.find(filter): the documents whose ids satisfy the filter (the set
\* matching), in insertion order.
Find(coll, matching) ==
    LET ids == SeqOfIds(matching)
    IN  [k \in DOMAIN ids |-> coll[ids[k]]]

\* Model.find().sort({key: 1}): any order of the collection's documents that
\* ascends in the key (the order of equal keys is not fixed by the store).
FindSorted(coll, key) ==
    LET S == DOMAIN coll
        n == Cardinality(S)
    IN  {[k \in 1..n |-> coll[p[k]]] : p \in
            {q \in [1..n -> S] :
                /\ \A a, b \in 1..n : a # b => q[a] # q[b]
                /\ \A a, b \in 1..n : a < b => StrLeq(coll[q[a]][key], coll[q[b]][key])}}


findById(coll, id) == IF id \in DOMAIN coll THEN coll[id] ELSE NullDoc

\* document.save() of a new document
Insert(coll, doc) == [i \in DOMAIN coll \cup {doc._id} |->
                         IF i = doc._id THEN doc ELSE coll[i]]

findByIdAndDelete(coll, id) == [i \in DOMAIN coll \ {id} |-> coll[i]]

\* An update with upsert: a document is inserted when none has that _id.
findByIdAndUpdate_Upsert(coll, id, doc) ==
    [i \in DOMAIN coll \cup {id} |->
        IF i # id THEN coll[i]
        ELSE [f \in (IF id \in DOMAIN coll THEN DOMAIN coll[id] ELSE {}) \cup DOMAIN doc |->
                 IF f \in DOMAIN doc THEN doc[f] ELSE coll[id][f]]]

\* An update that leaves out the paths whose value in doc is the empty array.
findByIdAndUpdate_SkipEmpty(coll, id, doc) ==
    IF id \notin DOMAIN coll THEN coll
    ELSE [coll EXCEPT ![id] =
            [f \in DOMAIN coll[id] \cup DOMAIN doc |->
                IF f \in DOMAIN doc /\ ~(f = "genre" /\ doc[f] = <<>>)
                THEN doc[f] ELSE coll[id][f]]]

\* Model.findByIdAndUpdate(id, doc): $set of the paths that are set in doc, on
\* the document with that _id when there is one (no upsert, no validators).
findByIdAndUpdate(coll, id, doc) ==
    IF id \notin DOMAIN coll THEN coll
    ELSE [coll EXCEPT ![id] =
            [f \in DOMAIN coll[id] \cup DOMAIN doc |->
                IF f \in DOMAIN doc THEN doc[f] ELSE coll[id][f]]]

Project(docs, fields) ==
    [k \in DOMAIN docs |-> [f \in DOMAIN docs[k] \cap (fields \cup {"_id"}) |-> docs[k][f]]]

-----------------------------------------------------------------------------
(* Responses                                                               *)

ResRender(view, locals) == [op |-> "render", view |-> view, locals |-> locals]

ResRedirect(url) == [op |-> "redirect", url |-> url]

NextErr(err) == [op |-> "next", err |-> err]

NotFound(message) == [message |-> message, status |-> 404]

\* What asyncHandler forwards when the handler throws or a promise rejects.
Thrown(name) == [name |-> name]

NoId == ""

NoBody == [f \in {} |-> Undefined]

Req(handler, id, body) == [handler |-> handler, params |-> [id |-> id], body |-> body]

NoRequest == Req("none", NoId, NoBody)

\* Requests are handled one at a time: none is being handled.
Idle == request = NoRequest

\* The response has been sent: req and res are dropped.
finish ==
    /\ ~Idle
    /\ request' = NoRequest
    /\ calls' = <<>>
    /\ UNCHANGED <<store, nextId>>

-----------------------------------------------------------------------------
(* Genre                                                                   *)

\* models/genre.js: name is a String, required, of 3 characters or more.
GenreDoc(obj, id) ==
    [f \in {"_id"} \cup {g \in {"name"} : obj[g].t = "string"} |->
        IF f = "_id" THEN id ELSE obj[f].s]

GenreValid(doc) == "name" \in DOMAIN doc /\ Len(doc.name) >= 3

GenreUrl(id) == <<"/catalog/genre/", id>>

GenreChains == <<
    Chain("name", "Genre name must contain at least 3 characters", FALSE,
          <<Item("trim"), IsLengthItem(3), Item("escape")>>) >>

GenreNames == {Undefined, Str(<<" ", "a", "b", " ">>), Str(<<" ", "a", "b", "c">>),
               Str(<<"A", "B", "C">>), Str(<<"x", "y", "z">>)}

GenreBodies == {[name |-> n] : n \in GenreNames}

\* The chains of the Genre forms on each submitted form.
GenreResult == [raw \in GenreBodies |-> validationResult(GenreChains, raw)]

ToLowerChar(c) ==
    IF c \in Range(UpperSeq)
    THEN LowerSeq[CHOOSE i \in DOMAIN UpperSeq : UpperSeq[i] = c]
    ELSE c

ToLower(s) == [i \in DOMAIN s |-> ToLowerChar(s[i])]

\* The lookup without the collation: names are compared as they are.
CollationExact(s, t) == s = t

\* Equality under the collation { locale: "en", strength: 2 }: letter case is
\* not compared.
CollationEqual(s, t) == ToLower(s) = ToLower(t)

BooksInGenre(id) ==
    Project(Find(books, {i \in DOMAIN books : \E k \in DOMAIN books[i].genre : books[i].genre[k] = id}),
            {"title", "summary"})

genre_list ==
    /\ \E allGenres \in FindSorted(genres, "name") :
          calls' = <<ResRender("genre_list",
                        [title |-> "Genre list", genre_list |-> allGenres])>>
    /\ Idle
    /\ request' = Req("genre_list", NoId, NoBody)
    /\ UNCHANGED <<store, nextId>>

genre_detail ==
    \E id \in Ids :
       LET genre == findById(genres, id)
           booksInGenre == BooksInGenre(id)
       IN  /\ Idle
           /\ request' = Req("genre_detail", id, NoBody)
           /\ calls' = IF IsNull(genre)
                       THEN <<NextErr(NotFound("Genre not found"))>>
                       ELSE <<ResRender("genre_detail",
                                [title |-> "Genre detail", genre |-> genre,
                                 genre_books |-> booksInGenre])>>
           /\ UNCHANGED <<store, nextId>>

genre_create_get ==
    /\ Idle
    /\ request' = Req("genre_create_get", NoId, NoBody)
    /\ calls' = <<ResRender("genre_form", [title |-> "Create genre"])>>
    /\ UNCHANGED <<store, nextId>>

genre_create_post ==
    \E raw \in GenreBodies :
       LET errors == GenreResult[raw]
           genre == GenreDoc(errors.body, NewObjectId)
           existing == {g \in DOMAIN genres :
                           CollationEqual(genres[g].name, errors.body.name.s)}
       IN  /\ Idle
           /\ request' = Req("genre_create_post", NoId, raw)
           /\ IF errors.errors # <<>>
              THEN /\ calls' = <<ResRender("genre_form",
                                    [title |-> "Create genre", genre |-> genre,
                                     errors |-> errors.errors])>>
                   /\ UNCHANGED <<store, nextId>>
              ELSE IF existing # {}
              THEN /\ \E genreExists \in existing :
                          calls' = <<ResRedirect(GenreUrl(genreExists))>>
                   /\ UNCHANGED <<store, nextId>>
              ELSE IF ~GenreValid(genre)
              THEN /\ calls' = <<NextErr(Thrown("ValidationError"))>>
                   /\ UNCHANGED <<store, nextId>>
              ELSE /\ nextId <= MaxId
                   /\ genres' = Insert(genres, genre)
                   /\ nextId' = nextId + 1
                   /\ calls' = <<ResRedirect(GenreUrl(genre._id))>>
                   /\ UNCHANGED <<authors, books, bookinstances>>

\* res.render once a response has been sent: the view is given a null record
\* and the response cannot be sent again, so an error reaches next.
AfterRedirect(url, view, locals) ==
    <<ResRedirect(url), ResRender(view, locals), NextErr(Thrown("Error"))>>

genre_delete_get ==
    \E id \in Ids :
       LET genre == findById(genres, id)
           locals == [title |-> "Delete genre", genre |-> genre,
                      genre_books |-> BooksInGenre(id)]
       IN  /\ Idle
           /\ request' = Req("genre_delete_get", id, NoBody)
           /\ calls' = IF IsNull(genre)
                       THEN AfterRedirect(<<"/catalog/genres">>, "genre_delete", locals)
                       ELSE <<ResRender("genre_delete", locals)>>
           /\ UNCHANGED <<store, nextId>>

genre_delete_post ==
    \E id \in Ids, genre_id \in Ids :
       LET genre == findById(genres, id)
           booksInGenre == BooksInGenre(id)
       IN  /\ Idle
           /\ request' = Req("genre_delete_post", id, [genre_id |-> genre_id])
           /\ IF Len(booksInGenre) > 0
              THEN /\ calls' = <<ResRender("genre_delete",
                                    [title |-> "Delete genre", genre |-> genre,
                                     genre_books |-> booksInGenre])>>
                   /\ UNCHANGED <<store, nextId>>
              ELSE /\ genres' = findByIdAndDelete(genres, genre_id)
                   /\ calls' = <<ResRedirect(<<"/catalog/genres">>)>>
                   /\ UNCHANGED <<authors, books, bookinstances, nextId>>

genre_update_get ==
    \E id \in Ids :
       LET genre == findById(genres, id)
       IN  /\ Idle
           /\ request' = Req("genre_update_get", id, NoBody)
           /\ calls' = IF IsNull(genre)
                       THEN <<NextErr(NotFound("Genre not found"))>>
                       ELSE <<ResRender("genre_form",
                                [title |-> "Update genre", genre |-> genre])>>
           /\ UNCHANGED <<store, nextId>>

genre_update_post ==
    \E id \in Ids, raw \in GenreBodies :
       LET errors == GenreResult[raw]
           genre == GenreDoc(errors.body, id)
       IN  /\ Idle
           /\ request' = Req("genre_update_post", id, raw)
           /\ IF errors.errors # <<>>
              THEN /\ calls' = <<ResRender("genre_form",
                                    [title |-> "Update genre", genre |-> genre,
                                     errors |-> errors.errors])>>
                   /\ UNCHANGED <<store, nextId>>
              ELSE /\ genres' = findByIdAndUpdate(genres, id, genre)
                   /\ calls' = <<ResRedirect(GenreUrl(genre._id))>>
                   /\ UNCHANGED <<authors, books, bookinstances, nextId>>

-----------------------------------------------------------------------------
(* Author                                                                  *)

\* The value of a Date path that was set to null.
NullDate == <<"null">>

\* Date.now() when the document is made
Now == <<"now">>

\* How mongoose casts to a Date path: the empty string casts to null.
CastDate(v) == IF v.t = "date" THEN v.s ELSE NullDate

\* models/author.js: first_name and family_name are Strings and required,
\* date_of_birth and date_of_death are Dates.
AuthorDoc(obj, id) ==
    [f \in {"_id"}
           \cup {g \in {"first_name", "family_name"} : obj[g].t = "string"}
           \cup {g \in {"date_of_birth", "date_of_death"} : obj[g].t # "undefined"} |->
        CASE f = "_id" -> id
          [] f \in {"first_name", "family_name"} -> obj[f].s
          [] OTHER -> CastDate(obj[f])]

AuthorValid(doc) ==
    \A f \in {"first_name", "family_name"} : f \in DOMAIN doc /\ doc[f] # <<>>

AuthorUrl(id) == <<"/catalog/author/", id>>

AuthorChains == <<
    Chain("first_name", DefaultMessage, FALSE,
          <<Item("trim"),
            WithMessage(IsLengthItem(1), "First name must be specified."),
            Item("escape"),
            WithMessage(Item("isAlphanumeric"),
                        "First name has non-alphanumeric characters.")>>),
    Chain("family_name", DefaultMessage, FALSE,
          <<Item("trim"),
            WithMessage(IsLengthItem(1), "Family name must be specified."),
            Item("escape"),
            WithMessage(Item("isAlphanumeric"),
                        "Family name has non-alphanumeric characters.")>>),
    Chain("date_of_birth", "Invalid date of birth", TRUE,
          <<Item("isISO8601"), Item("toDate")>>),
    Chain("date_of_death", "Invalid date of death", TRUE,
          <<Item("isISO8601"), Item("toDate")>>) >>

AuthorBody(first, family, birth, death) ==
    [first_name |-> first, family_name |-> family,
     date_of_birth |-> birth, date_of_death |-> death]

Year == <<"2", "0", "0", "1">>

\* The Author forms that are submitted.
AuthorBodies == {
    AuthorBody(Str(<<" ", "a">>), Str(<<"b", " ">>), Str(Year), Undefined),
    AuthorBody(Str(<<"a">>), Str(<<"b">>), Str(<<>>), Undefined),
    AuthorBody(Str(<<" ">>), Str(<<"b">>), Undefined, Undefined),
    AuthorBody(Str(<<"a">>), Str(<<"b", "<">>), Str(Year), Str(Year)),
    AuthorBody(Undefined, Str(<<" ", "<">>), Str(<<"x">>), Str(<<"x">>)),
    AuthorBody(Str(<<"\t">>), Undefined, Str(Year), Str(<<"x">>)),
    AuthorBody(Str(<<"a">>), Str(<<"b">>), Str(<<"x">>), Undefined) }

AuthorResult == [raw \in AuthorBodies |-> validationResult(AuthorChains, raw)]

BooksByAuthor(id) ==
    Project(Find(books, {i \in DOMAIN books : "author" \in DOMAIN books[i] /\ books[i].author = id}),
            {"title", "summary"})

author_list ==
    /\ \E allAuthors \in FindSorted(authors, "family_name") :
          calls' = <<ResRender("author_list",
                        [title |-> "Author list", author_list |-> allAuthors])>>
    /\ Idle
    /\ request' = Req("author_list", NoId, NoBody)
    /\ UNCHANGED <<store, nextId>>

author_detail ==
    \E id \in Ids :
       LET author == findById(authors, id)
           allBooksByAuthor == BooksByAuthor(id)
       IN  /\ Idle
           /\ request' = Req("author_detail", id, NoBody)
           /\ calls' = IF IsNull(author)
                       THEN <<NextErr(NotFound("Author not found"))>>
                       ELSE <<ResRender("author_detail",
                                [title |-> "Author detail", author |-> author,
                                 author_books |-> allBooksByAuthor])>>
           /\ UNCHANGED <<store, nextId>>

author_create_get ==
    /\ Idle
    /\ request' = Req("author_create_get", NoId, NoBody)
    /\ calls' = <<ResRender("author_form", [title |-> "Create author"])>>
    /\ UNCHANGED <<store, nextId>>

author_create_post ==
    \E raw \in AuthorBodies :
       LET errors == AuthorResult[raw]
           author == AuthorDoc(errors.body, NewObjectId)
       IN  /\ Idle
           /\ request' = Req("author_create_post", NoId, raw)
           /\ IF errors.errors # <<>>
              THEN /\ calls' = <<ResRender("author_form",
                                    [title |-> "Create author", author |-> author,
                                     errors |-> errors.errors])>>
                   /\ UNCHANGED <<store, nextId>>
              ELSE IF ~AuthorValid(author)
              THEN /\ calls' = <<NextErr(Thrown("ValidationError"))>>
                   /\ UNCHANGED <<store, nextId>>
              ELSE /\ nextId <= MaxId
                   /\ authors' = Insert(authors, author)
                   /\ nextId' = nextId + 1
                   /\ calls' = <<ResRedirect(AuthorUrl(author._id))>>
                   /\ UNCHANGED <<genres, books, bookinstances>>

author_delete_get ==
    \E id \in Ids :
       LET author == findById(authors, id)
           locals == [title |-> "Delete author", author |-> author,
                      author_books |-> BooksByAuthor(id)]
       IN  /\ Idle
           /\ request' = Req("author_delete_get", id, NoBody)
           /\ calls' = IF IsNull(author)
                       THEN AfterRedirect(<<"/catalog/authors">>, "author_delete", locals)
                       ELSE <<ResRender("author_delete", locals)>>
           /\ UNCHANGED <<store, nextId>>

\* author_delete_post that redirects without deleting.
author_delete_post_NoDelete ==
    \E id \in Ids, author_id \in Ids :
       LET author == findById(authors, id)
           allBooksByAuthor == BooksByAuthor(id)
       IN  /\ Idle
           /\ request' = Req("author_delete_post", id, [author_id |-> author_id])
           /\ calls' = IF Len(allBooksByAuthor) > 0
                       THEN <<ResRender("author_delete",
                                [title |-> "Delete author", author |-> author,
                                 author_books |-> allBooksByAuthor])>>
                       ELSE <<ResRedirect(<<"/catalog/authors">>)>>
           /\ UNCHANGED <<store, nextId>>

author_delete_post ==
    \E id \in Ids, author_id \in Ids :
       LET author == findById(authors, id)
           allBooksByAuthor == BooksByAuthor(id)
       IN  /\ Idle
           /\ request' = Req("author_delete_post", id, [author_id |-> author_id])
           /\ IF Len(allBooksByAuthor) > 0
              THEN /\ calls' = <<ResRender("author_delete",
                                    [title |-> "Delete author", author |-> author,
                                     author_books |-> allBooksByAuthor])>>
                   /\ UNCHANGED <<store, nextId>>
              ELSE /\ authors' = findByIdAndDelete(authors, author_id)
                   /\ calls' = <<ResRedirect(<<"/catalog/authors">>)>>
                   /\ UNCHANGED <<genres, books, bookinstances, nextId>>

author_update_get ==
    \E id \in Ids :
       LET author == findById(authors, id)
       IN  /\ Idle
           /\ request' = Req("author_update_get", id, NoBody)
           /\ calls' = IF IsNull(author)
                       THEN <<NextErr(NotFound("Author not found"))>>
                       ELSE <<ResRender("author_form",
                                [title |-> "Update author", author |-> author])>>
           /\ UNCHANGED <<store, nextId>>

author_update_post ==
    \E id \in Ids, raw \in AuthorBodies :
       LET errors == AuthorResult[raw]
           author == AuthorDoc(errors.body, id)
       IN  /\ Idle
           /\ request' = Req("author_update_post", id, raw)
           /\ IF errors.errors # <<>>
              THEN /\ calls' = <<ResRender("author_form",
                                    [title |-> "Update author", author |-> author,
                                     errors |-> errors.errors])>>
                   /\ UNCHANGED <<store, nextId>>
              ELSE /\ authors' = findByIdAndUpdate(authors, id, author)
                   /\ calls' = <<ResRedirect(AuthorUrl(author._id))>>
                   /\ UNCHANGED <<genres, books, bookinstances, nextId>>

-----------------------------------------------------------------------------
(* Book                                                                    *)

\* new Book(obj): title, summary and isbn are Strings, author an ObjectId,
\* genre an array of ObjectIds that is empty unless every entry casts.
BookDoc(obj, id) ==
    [f \in {"_id", "genre"}
           \cup {g \in {"title", "summary", "isbn"} : obj[g].t = "string"}
           \cup {g \in {"author"} : CastsToObjectId(obj[g])} |->
        CASE f = "_id" -> id
          [] f = "author" -> obj[f].s[1]
          [] f = "genre" ->
                IF IsArray(obj[f]) /\ \A k \in DOMAIN obj[f].a : CastsToObjectId(obj[f].a[k])
                THEN [k \in DOMAIN obj[f].a |-> obj[f].a[k].s[1]]
                ELSE <<>>
          [] OTHER -> obj[f].s]

\* The paths of obj that new Book(obj) could not cast.
BookCastErrors(obj) ==
    {g \in {"author"} : obj[g].t # "undefined" /\ ~CastsToObjectId(obj[g])}
    \cup {g \in {"genre"} : IsArray(obj[g])
                             /\ \E k \in DOMAIN obj[g].a : ~CastsToObjectId(obj[g].a[k])}

\* The validation of save(): the required paths are set and nothing failed to cast.
BookValid(doc, obj) ==
    /\ BookCastErrors(obj) = {}
    /\ "author" \in DOMAIN doc
    /\ \A f \in {"title", "summary", "isbn"} : f \in DOMAIN doc /\ doc[f] # <<>>

BookUrl(id) == <<"/catalog/book/", id>>

\* The first middleware of the Book forms: req.body.genre becomes an array.
ConvertGenre(body) ==
    IF ~IsArray(body.genre)
    THEN [body EXCEPT !.genre = IF body.genre.t = "undefined"
                                THEN Arr(<<>>) ELSE Arr(<<body.genre>>)]
    ELSE body

BookChains == <<
    Chain("title", "Title must not be empty.", FALSE,
          <<Item("trim"), IsLengthItem(1), Item("escape")>>),
    Chain("author", "Author must not be empty.", FALSE,
          <<Item("trim"), IsLengthItem(1), Item("escape")>>),
    Chain("summary", "Summary must not be empty.", FALSE,
          <<Item("trim"), IsLengthItem(1), Item("escape")>>),
    Chain("isbn", "ISBN must not be empty", FALSE,
          <<Item("trim"), IsLengthItem(1), Item("escape")>>),
    \* genre.*: every entry of the array
    Chain("genre", DefaultMessage, FALSE, <<Item("escape")>>) >>

BookBody(title, author, summary, isbn, genre) ==
    [title |-> title, author |-> author, summary |-> summary, isbn |-> isbn,
     genre |-> genre]

\* What the genre checkboxes of a Book form send: none, one, several.
GenreSelections ==
    {Undefined, Str(<<IdSeq[1]>>), Arr(<<Str(<<IdSeq[1]>>), Str(<<IdSeq[2]>>)>>)}

\* The identifiers that the submitted forms refer to.
RefIds == {IdSeq[1], IdSeq[2]}

\* The Book forms that are submitted.
BookBodies ==
    {BookBody(Str(<<" ", "t", "<">>), Str(<<a>>), Str(<<"s">>), Str(<<"i">>), g) :
        a \in RefIds, g \in GenreSelections}
    \cup {
    BookBody(Str(<<" ">>), Str(<<IdSeq[1]>>), Str(<<"s">>), Str(<<"i">>), Str(<<IdSeq[1]>>)),
    BookBody(Undefined, Str(<<" ">>), Undefined, Str(<<>>),
             Arr(<<Str(<<IdSeq[1]>>), Str(<<IdSeq[2]>>)>>)),
    BookBody(Str(<<" ", "t", "<">>), Str(<<"z">>), Str(<<"s">>), Str(<<"i">>), Undefined),
    BookBody(Str(<<" ", "t", "<">>), Str(<<IdSeq[1]>>), Str(<<"s">>), Str(<<" ">>),
             Str(<<" ", IdSeq[1]>>)) }

BookResult == [raw \in BookBodies |-> validationResult(BookChains, ConvertGenre(raw))]

\* populate(path) of a single reference: the document, or null when there is none.
Populate(doc, path, coll) ==
    IF path \in DOMAIN doc
    THEN [doc EXCEPT ![path] = findById(coll, doc[path])]
    ELSE doc

\* populate("genre"): the documents of the entries that resolve.
PopulateGenre(doc) ==
    LET ks == SelectSeq([k \in DOMAIN doc.genre |-> k],
                        LAMBDA k : doc.genre[k] \in DOMAIN genres)
    IN  [doc EXCEPT !.genre = [k \in DOMAIN ks |-> genres[doc.genre[ks[k]]]]]

BookPopulated(id) ==
    IF id \in DOMAIN books
    THEN PopulateGenre(Populate(books[id], "author", authors))
    ELSE NullDoc

InstancesOfBook(id) ==
    Find(bookinstances, {i \in DOMAIN bookinstances : "book" \in DOMAIN bookinstances[i] /\ bookinstances[i].book = id})

\* The genres of the form with those of the draft marked as checked.
MarkChecked(allGenres, selected) ==
    [k \in DOMAIN allGenres |->
        IF allGenres[k]._id \in selected
        THEN [f \in DOMAIN allGenres[k] \cup {"checked"} |->
                 IF f = "checked" THEN "true" ELSE allGenres[k][f]]
        ELSE allGenres[k]]

book_list ==
    /\ Idle
    /\ \E allBooks \in FindSorted(books, "title") :
          calls' = <<ResRender("book_list",
                        [title |-> "Book list",
                         book_list |-> [k \in DOMAIN allBooks |->
                            Populate([f \in DOMAIN allBooks[k] \cap {"_id", "title", "author"}
                                         |-> allBooks[k][f]], "author", authors)]])>>
    /\ request' = Req("book_list", NoId, NoBody)
    /\ UNCHANGED <<store, nextId>>

book_detail ==
    \E id \in Ids :
       LET book == BookPopulated(id)
           bookInstances == InstancesOfBook(id)
       IN  /\ Idle
           /\ request' = Req("book_detail", id, NoBody)
           /\ calls' = IF IsNull(book)
                       THEN <<NextErr(NotFound("Book not found"))>>
                       ELSE <<ResRender("book_detail",
                                [title |-> "Book detail", book |-> book,
                                 book_instances |-> bookInstances])>>
           /\ UNCHANGED <<store, nextId>>

book_create_get ==
    /\ Idle
    /\ request' = Req("book_create_get", NoId, NoBody)
    /\ \E allAuthors \in FindSorted(authors, "family_name"),
          allGenres \in FindSorted(genres, "name") :
          calls' = <<ResRender("book_form",
                        [title |-> "Create book", authors |-> allAuthors,
                         genres |-> allGenres])>>
    /\ UNCHANGED <<store, nextId>>

book_create_post ==
    \E raw \in BookBodies :
       LET errors == BookResult[raw]
           book == BookDoc(errors.body, NewObjectId)
       IN  /\ Idle
           /\ request' = Req("book_create_post", NoId, raw)
           /\ IF errors.errors # <<>>
              THEN /\ \E allAuthors \in FindSorted(authors, "family_name"),
                         allGenres \in FindSorted(genres, "name") :
                         calls' = <<ResRender("book_form",
                                      [title |-> "Create book", authors |-> allAuthors,
                                       genres |-> MarkChecked(allGenres, Range(book.genre)),
                                       book |-> book, errors |-> errors.errors])>>
                   /\ UNCHANGED <<store, nextId>>
              ELSE IF ~BookValid(book, errors.body)
              THEN /\ calls' = <<NextErr(Thrown("ValidationError"))>>
                   /\ UNCHANGED <<store, nextId>>
              ELSE /\ nextId <= MaxId
                   /\ books' = Insert(books, book)
                   /\ nextId' = nextId + 1
                   /\ calls' = <<ResRedirect(BookUrl(book._id))>>
                   /\ UNCHANGED <<authors, genres, bookinstances>>

book_delete_get ==
    \E id \in Ids :
       LET book == BookPopulated(id)
           locals == [title |-> "Delete book", book |-> book,
                      book_instances |-> InstancesOfBook(id)]
       IN  /\ Idle
           /\ request' = Req("book_delete_get", id, NoBody)
           /\ calls' = IF IsNull(book)
                       THEN AfterRedirect(<<"/catalog/books">>, "book_delete", locals)
                       ELSE <<ResRender("book_delete", locals)>>
           /\ UNCHANGED <<store, nextId>>

\* book_delete_post without the check of the dependents.
book_delete_post_Unguarded ==
    \E id \in Ids, book_id \in Ids :
       /\ Idle
       /\ request' = Req("book_delete_post", id, [book_id |-> book_id])
       /\ books' = findByIdAndDelete(books, book_id)
       /\ calls' = <<ResRedirect(<<"/catalog/books">>)>>
       /\ UNCHANGED <<authors, genres, bookinstances, nextId>>

book_delete_post ==
    \E id \in Ids, book_id \in Ids :
       LET book == BookPopulated(id)
           bookInstances == InstancesOfBook(id)
       IN  /\ Idle
           /\ request' = Req("book_delete_post", id, [book_id |-> book_id])
           /\ IF Len(bookInstances) > 0
              THEN /\ calls' = <<ResRender("book_delete",
                                    [title |-> "Delete book", book |-> book,
                                     book_instances |-> bookInstances])>>
                   /\ UNCHANGED <<store, nextId>>
              ELSE /\ books' = findByIdAndDelete(books, book_id)
                   /\ calls' = <<ResRedirect(<<"/catalog/books">>)>>
                   /\ UNCHANGED <<authors, genres, bookinstances, nextId>>

book_update_get ==
    \E id \in Ids :
       LET book == BookPopulated(id)
       IN  /\ Idle
           /\ request' = Req("book_update_get", id, NoBody)
           /\ IF IsNull(book)
              THEN calls' = <<NextErr(NotFound("Book not found"))>>
              ELSE \E allAuthors \in FindSorted(authors, "family_name"),
                      allGenres \in FindSorted(genres, "name") :
                      calls' = <<ResRender("book_form",
                                   [title |-> "Update book", authors |-> allAuthors,
                                    genres |-> MarkChecked(allGenres,
                                        {book.genre[k]._id : k \in DOMAIN book.genre}),
                                    book |-> book])>>
           /\ UNCHANGED <<store, nextId>>

book_update_post ==
    \E id \in Ids, raw \in BookBodies :
       LET errors == BookResult[raw]
           book == BookDoc(errors.body, id)
           updatedBook == findById(books, id)
       IN  /\ Idle
           /\ request' = Req("book_update_post", id, raw)
           /\ IF errors.errors # <<>>
              THEN /\ \E allAuthors \in FindSorted(authors, "family_name"),
                         allGenres \in FindSorted(genres, "name") :
                         calls' = <<ResRender("book_form",
                                      [title |-> "Update book", authors |-> allAuthors,
                                       genres |-> MarkChecked(allGenres, Range(book.genre)),
                                       book |-> book, errors |-> errors.errors])>>
                   /\ UNCHANGED <<store, nextId>>
              ELSE /\ books' = findByIdAndUpdate(books, id, book)
                   \* updatedBook.url
                   /\ calls' = IF IsNull(updatedBook)
                               THEN <<NextErr(Thrown("TypeError"))>>
                               ELSE <<ResRedirect(BookUrl(updatedBook._id))>>
                   /\ UNCHANGED <<authors, genres, bookinstances, nextId>>

-----------------------------------------------------------------------------
(* BookInstance                                                            *)

Available == <<"A", "v", "a", "i", "l", "a", "b", "l", "e">>

Maintenance == <<"M", "a", "i", "n", "t", "e", "n", "a", "n", "c", "e">>

Loaned == <<"L", "o", "a", "n", "e", "d">>

Reserved == <<"R", "e", "s", "e", "r", "v", "e", "d">>

StatusEnum == {Available, Maintenance, Loaned, Reserved}

\* new BookInstance(obj): book is an ObjectId, imprint a String, status a
\* String with default "Maintenance", due_back a Date with default Date.now.
BookInstanceDoc(obj, id) ==
    [f \in {"_id", "status", "due_back"}
           \cup {g \in {"imprint"} : obj[g].t = "string"}
           \cup {g \in {"book"} : CastsToObjectId(obj[g])} |->
        CASE f = "_id" -> id
          [] f = "book" -> obj[f].s[1]
          [] f = "status" -> IF obj[f].t = "string" THEN obj[f].s ELSE Maintenance
          [] f = "due_back" -> IF obj[f].t = "undefined" THEN Now ELSE CastDate(obj[f])
          [] OTHER -> obj[f].s]

\* The validation of save(): book cast and set, imprint and status set and
\* not empty, status one of the enum.
BookInstanceValid(doc, obj) ==
    /\ "book" \in DOMAIN doc
    /\ "imprint" \in DOMAIN doc /\ doc.imprint # <<>>
    /\ doc.status \in StatusEnum

BookInstanceUrl(id) == <<"/catalog/bookinstance/", id>>

BookInstanceChains == <<
    Chain("book", "Book must be specified", FALSE,
          <<Item("trim"), IsLengthItem(1), Item("escape")>>),
    Chain("imprint", "Imprint must be specified", FALSE,
          <<Item("trim"), IsLengthItem(1), Item("escape")>>),
    Chain("status", DefaultMessage, FALSE, <<Item("escape")>>),
    Chain("due_back", "Invalid date", TRUE, <<Item("isISO8601"), Item("toDate")>>) >>

BookInstanceBody(book, imprint, status, due_back) ==
    [book |-> book, imprint |-> imprint, status |-> status, due_back |-> due_back]

\* The BookInstance forms that are submitted.
BookInstanceBodies ==
    {BookInstanceBody(Str(<<b>>), Str(<<" ", "p">>), Str(Available), Undefined) :
        b \in RefIds}
    \cup {
    BookInstanceBody(Str(<<IdSeq[1]>>), Str(<<"p">>), Str(<<"F", "o", "o">>), Str(Year)),
    BookInstanceBody(Str(<<IdSeq[1]>>), Str(<<"p">>), Undefined, Undefined),
    BookInstanceBody(Str(<<IdSeq[1]>>), Str(<<" ">>), Str(<<" ">> \o Loaned), Str(<<"x">>)),
    BookInstanceBody(Undefined, Str(<<"p">>), Str(Available), Str(<<>>)) }

BookInstanceResult ==
    [raw \in BookInstanceBodies |-> validationResult(BookInstanceChains, raw)]

BookInstancePopulated(id) ==
    IF id \in DOMAIN bookinstances
    THEN Populate(bookinstances[id], "book", books)
    ELSE NullDoc

\* The locals of the form of a draft; bookInstance.book._id throws when book
\* is not set or is null.
BookInstanceForm(title, allBooks, bookInstance, more) ==
    IF "book" \notin DOMAIN bookInstance THEN <<NextErr(Thrown("TypeError"))>>
    ELSE <<ResRender("bookinstance_form",
              [f \in {"title", "book_list", "selected_book", "bookinstance"}
                     \cup DOMAIN more |->
                  CASE f = "title" -> title
                    [] f = "book_list" -> allBooks
                    [] f = "selected_book" -> bookInstance.book
                    [] f = "bookinstance" -> bookInstance
                    [] OTHER -> more[f]])>>

bookinstance_list ==
    /\ Idle
    /\ request' = Req("bookinstance_list", NoId, NoBody)
    /\ calls' = <<ResRender("bookinstance_list",
                    [title |-> "Book-instance list",
                     bookinstance_list |->
                        LET all == Find(bookinstances, DOMAIN bookinstances)
                        IN  [k \in DOMAIN all |-> Populate(all[k], "book", books)]])>>
    /\ UNCHANGED <<store, nextId>>

bookinstance_detail ==
    \E id \in Ids :
       LET bookInstance == BookInstancePopulated(id)
       IN  /\ Idle
           /\ request' = Req("bookinstance_detail", id, NoBody)
           /\ calls' = IF IsNull(bookInstance)
                       THEN <<NextErr(NotFound("Book copy not found"))>>
                       ELSE <<ResRender("bookinstance_detail",
                                [title |-> "Book-instance detail",
                                 bookinstance |-> bookInstance])>>
           /\ UNCHANGED <<store, nextId>>

bookinstance_create_get ==
    /\ Idle
    /\ request' = Req("bookinstance_create_get", NoId, NoBody)
    /\ \E allBooks \in FindSorted(books, "title") :
          calls' = <<ResRender("bookinstance_form",
                        [title |-> "Create book-instance",
                         book_list |-> Project(allBooks, {"title"})])>>
    /\ UNCHANGED <<store, nextId>>

bookinstance_create_post ==
    \E raw \in BookInstanceBodies :
       LET errors == BookInstanceResult[raw]
           bookInstance == BookInstanceDoc(errors.body, NewObjectId)
       IN  /\ Idle
           /\ request' = Req("bookinstance_create_post", NoId, raw)
           /\ IF errors.errors # <<>>
              THEN /\ \E allBooks \in FindSorted(books, "title") :
                         calls' = BookInstanceForm("Create book-instance",
                                      Project(allBooks, {"title"}), bookInstance,
                                      [errors |-> errors.errors])
                   /\ UNCHANGED <<store, nextId>>
              ELSE IF ~BookInstanceValid(bookInstance, errors.body)
              THEN /\ calls' = <<NextErr(Thrown("ValidationError"))>>
                   /\ UNCHANGED <<store, nextId>>
              ELSE /\ nextId <= MaxId
                   /\ bookinstances' = Insert(bookinstances, bookInstance)
                   /\ nextId' = nextId + 1
                   /\ calls' = <<ResRedirect(BookInstanceUrl(bookInstance._id))>>
                   /\ UNCHANGED <<authors, genres, books>>

bookinstance_delete_get ==
    \E id \in Ids :
       LET bookInstance == BookInstancePopulated(id)
           locals == [title |-> "Delete book-instance", bookinstance |-> bookInstance]
       IN  /\ Idle
           /\ request' = Req("bookinstance_delete_get", id, NoBody)
           /\ calls' = IF IsNull(bookInstance)
                       THEN AfterRedirect(<<"/catalog/bookinstances">>,
                                          "bookinstance_delete", locals)
                       ELSE <<ResRender("bookinstance_delete", locals)>>
           /\ UNCHANGED <<store, nextId>>

bookinstance_delete_post ==
    \E id \in Ids, bookinstance_id \in Ids :
       /\ Idle
       /\ request' = Req("bookinstance_delete_post", id,
                         [bookinstance_id |-> bookinstance_id])
       /\ bookinstances' = findByIdAndDelete(bookinstances, bookinstance_id)
       /\ calls' = <<ResRedirect(<<"/catalog/bookinstances">>)>>
       /\ UNCHANGED <<authors, genres, books, nextId>>

bookinstance_update_get ==
    \E id \in Ids :
       LET bookInstance == BookInstancePopulated(id)
           allBooks == Find(books, DOMAIN books)
       IN  /\ Idle
           /\ request' = Req("bookinstance_update_get", id, NoBody)
           /\ calls' = IF IsNull(bookInstance)
                       THEN <<NextErr(NotFound("Book copy not found"))>>
                       ELSE IF IsNull(bookInstance.book)
                       THEN <<NextErr(Thrown("TypeError"))>>
                       ELSE <<ResRender("bookinstance_form",
                                [title |-> "Update book-instance",
                                 book_list |-> allBooks,
                                 selected_book |-> bookInstance.book._id,
                                 bookinstance |-> bookInstance])>>
           /\ UNCHANGED <<store, nextId>>

bookinstance_update_post ==
    \E id \in Ids, raw \in BookInstanceBodies :
       LET errors == BookInstanceResult[raw]
           bookInstance == BookInstanceDoc(errors.body, id)
       IN  /\ Idle
           /\ request' = Req("bookinstance_update_post", id, raw)
           /\ IF errors.errors # <<>>
              THEN /\ calls' = BookInstanceForm("Update BookInstance",
                                   Project(Find(books, DOMAIN books), {"title"}), bookInstance,
                                   [errors |-> errors.errors])
                   /\ UNCHANGED <<store, nextId>>
              ELSE /\ bookinstances' = findByIdAndUpdate(bookinstances, id, bookInstance)
                   /\ calls' = <<ResRedirect(BookInstanceUrl(bookInstance._id))>>
                   /\ UNCHANGED <<authors, genres, books, nextId>>

-----------------------------------------------------------------------------

Init ==
    /\ authors = EmptyCollection
    /\ genres = EmptyCollection
    /\ books = EmptyCollection
    /\ bookinstances = EmptyCollection
    /\ nextId = 1
    /\ request = NoRequest
    /\ calls = <<>>

Next ==
    \/ finish
    \/ genre_list
    \/ genre_detail
    \/ genre_create_get
    \/ genre_create_post
    \/ genre_delete_get
    \/ genre_delete_post
    \/ genre_update_get
    \/ genre_update_post
    \/ author_list
    \/ author_detail
    \/ author_create_get
    \/ author_create_post
    \/ author_delete_get
    \/ author_delete_post
    \/ author_update_get
    \/ author_update_post
    \/ book_list
    \/ book_detail
    \/ book_create_get
    \/ book_create_post
    \/ book_delete_get
    \/ book_delete_post
    \/ book_update_get
    \/ book_update_post
    \/ bookinstance_list
    \/ bookinstance_detail
    \/ bookinstance_create_get
    \/ bookinstance_create_post
    \/ bookinstance_delete_get
    \/ bookinstance_delete_post
    \/ bookinstance_update_get
    \/ bookinstance_update_post

Spec == Init /\ [][Next]_vars

-----------------------------------------------------------------------------
(* Two requests in flight: a handler gives up control at every await, so   *)
(* the store operations of two requests interleave. Here request and calls *)
(* hold one entry per request in flight.                                   *)

MaxRaceId == 4

Procs == {"p", "q"}

\* A request in flight: pc is the await it has reached, found holds what its
\* reads have returned so far.
RaceReq(handler, id, body, pc, found) ==
    [handler |-> handler, params |-> [id |-> id], body |-> body, pc |-> pc,
     found |-> found]

NoneFound == [f \in {} |-> NullDoc]

RaceIdle(p) == request[p].pc = "idle"

At(p, handler, pc) == request[p].handler = handler /\ request[p].pc = pc

\* The Genre forms that the two requests submit: a name that is too short
\* and two names that differ in letter case only.
RaceGenreBodies ==
    {[name |-> n] : n \in {Str(<<" ", "a", "b", " ">>), Str(<<" ", "a", "b", "c">>),
                           Str(<<"A", "B", "C">>)}}

\* Genre.findOne({ name }).collation(...): the request is received and
\* validated, then the lookup is made and its result kept.
genre_create_post_findOne(p) ==
    \E raw \in RaceGenreBodies :
       LET errors == GenreResult[raw]
           genre == GenreDoc(errors.body, NewObjectId)
           existing == {g \in DOMAIN genres :
                           CollationEqual(genres[g].name, errors.body.name.s)}
       IN  /\ RaceIdle(p)
           /\ IF errors.errors # <<>>
              THEN /\ request' = [request EXCEPT ![p] =
                          RaceReq("genre_create_post", NoId, raw, "done", NoneFound)]
                   /\ calls' = [calls EXCEPT ![p] =
                          <<ResRender("genre_form",
                               [title |-> "Create genre", genre |-> genre,
                                errors |-> errors.errors])>>]
              ELSE /\ \E genreExists \in IF existing = {} THEN {NullDoc}
                                        ELSE {genres[g] : g \in existing} :
                          request' = [request EXCEPT ![p] =
                              RaceReq("genre_create_post", NoId, raw, "findOne",
                                      [genreExists |-> genreExists])]
                   /\ UNCHANGED calls
           /\ UNCHANGED <<store, nextId>>

\* A save that looks the name up again in the same store operation.
genre_create_post_save_Atomic(p) ==
    LET errors == GenreResult[request[p].body]
        genre == GenreDoc(errors.body, NewObjectId)
        existing == {g \in DOMAIN genres :
                        CollationEqual(genres[g].name, errors.body.name.s)}
    IN  /\ At(p, "genre_create_post", "findOne")
        /\ request' = [request EXCEPT ![p].pc = "done"]
        /\ IF existing # {}
           THEN /\ \E g \in existing :
                      calls' = [calls EXCEPT ![p] = <<ResRedirect(GenreUrl(g))>>]
                /\ UNCHANGED <<store, nextId>>
           ELSE /\ nextId <= MaxRaceId
                /\ genres' = Insert(genres, genre)
                /\ nextId' = nextId + 1
                /\ calls' = [calls EXCEPT ![p] = <<ResRedirect(GenreUrl(genre._id))>>]
                /\ UNCHANGED <<authors, books, bookinstances>>

\* The rest of the handler once the lookup has returned: the redirect to the
\* Genre that was found, or genre.save() and the redirect to the new Genre.
genre_create_post_save(p) ==
    LET errors == GenreResult[request[p].body]
        genre == GenreDoc(errors.body, NewObjectId)
        genreExists == request[p].found.genreExists
    IN  /\ At(p, "genre_create_post", "findOne")
        /\ request' = [request EXCEPT ![p].pc = "done"]
        /\ IF ~IsNull(genreExists)
           THEN /\ calls' = [calls EXCEPT ![p] =
                                 <<ResRedirect(GenreUrl(genreExists._id))>>]
                /\ UNCHANGED <<store, nextId>>
           ELSE /\ nextId <= MaxRaceId
                /\ genres' = Insert(genres, genre)
                /\ nextId' = nextId + 1
                /\ calls' = [calls EXCEPT ![p] = <<ResRedirect(GenreUrl(genre._id))>>]
                /\ UNCHANGED <<authors, books, bookinstances>>

\* Promise.all([...]) of book_delete_post: the request is received and its
\* two reads are issued.
book_delete_post_all(p) ==
    \E id \in RefIds, book_id \in RefIds :
       /\ RaceIdle(p)
       /\ request' = [request EXCEPT ![p] =
              RaceReq("book_delete_post", id, [book_id |-> book_id], "all", NoneFound)]
       /\ UNCHANGED <<store, nextId, calls>>

\* Book.findById(req.params.id).populate("author").populate("genre")
book_delete_post_findById(p) ==
    /\ At(p, "book_delete_post", "all")
    /\ "book" \notin DOMAIN request[p].found
    /\ request' = [request EXCEPT ![p].found =
           [f \in DOMAIN @ \cup {"book"} |->
               IF f = "book" THEN BookPopulated(request[p].params.id) ELSE @[f]]]
    /\ UNCHANGED <<store, nextId, calls>>

\* BookInstance.find({ book: req.params.id })
book_delete_post_find(p) ==
    /\ At(p, "book_delete_post", "all")
    /\ "bookInstances" \notin DOMAIN request[p].found
    /\ request' = [request EXCEPT ![p].found =
           [f \in DOMAIN @ \cup {"bookInstances"} |->
               IF f = "bookInstances" THEN InstancesOfBook(request[p].params.id)
               ELSE @[f]]]
    /\ UNCHANGED <<store, nextId, calls>>

\* The rest of the handler once both reads have returned: the confirmation
\* view, or Book.findByIdAndDelete(req.body.book_id) and the redirect.
book_delete_post_findByIdAndDelete(p) ==
    /\ At(p, "book_delete_post", "all")
    /\ DOMAIN request[p].found = {"book", "bookInstances"}
    /\ request' = [request EXCEPT ![p].pc = "done"]
    /\ IF Len(request[p].found.bookInstances) > 0
       THEN /\ calls' = [calls EXCEPT ![p] =
                  <<ResRender("book_delete",
                       [title |-> "Delete book", book |-> request[p].found.book,
                        book_instances |-> request[p].found.bookInstances])>>]
            /\ UNCHANGED <<store, nextId>>
       ELSE /\ books' = findByIdAndDelete(books, request[p].body.book_id)
            /\ calls' = [calls EXCEPT ![p] = <<ResRedirect(<<"/catalog/books">>)>>]
            /\ UNCHANGED <<authors, genres, bookinstances, nextId>>

\* bookinstance_create_post has one store operation on each path: the read of
\* the Books for the form, or bookInstance.save().
bookinstance_create_post_save(p) ==
    \E raw \in BookInstanceBodies :
       LET errors == BookInstanceResult[raw]
           bookInstance == BookInstanceDoc(errors.body, NewObjectId)
       IN  /\ RaceIdle(p)
           /\ request' = [request EXCEPT ![p] =
                  RaceReq("bookinstance_create_post", NoId, raw, "done", NoneFound)]
           /\ IF errors.errors # <<>>
              THEN /\ \E allBooks \in FindSorted(books, "title") :
                         calls' = [calls EXCEPT ![p] =
                                      BookInstanceForm("Create book-instance",
                                          Project(allBooks, {"title"}), bookInstance,
                                          [errors |-> errors.errors])]
                   /\ UNCHANGED <<store, nextId>>
              ELSE IF ~BookInstanceValid(bookInstance, errors.body)
              THEN /\ calls' = [calls EXCEPT ![p] =
                                   <<NextErr(Thrown("ValidationError"))>>]
                   /\ UNCHANGED <<store, nextId>>
              ELSE /\ nextId <= MaxRaceId
                   /\ bookinstances' = Insert(bookinstances, bookInstance)
                   /\ nextId' = nextId + 1
                   /\ calls' = [calls EXCEPT ![p] =
                                   <<ResRedirect(BookInstanceUrl(bookInstance._id))>>]
                   /\ UNCHANGED <<authors, genres, books>>

\* The response of p has been sent: its req and res are dropped.
finishOf(p) ==
    /\ request[p].pc = "done"
    /\ request' = [request EXCEPT ![p] = RaceReq("none", NoId, NoBody, "idle", NoneFound)]
    /\ calls' = [calls EXCEPT ![p] = <<>>]
    /\ UNCHANGED <<store, nextId>>

\* The Book that is stored when the two requests arrive, as book_create_post
\* stores it.
StoredBook ==
    BookDoc(BookResult[BookBody(Str(<<" ", "t", "<">>), Str(<<IdSeq[2]>>),
                                Str(<<"s">>), Str(<<"i">>), Undefined)].body,
            IdSeq[1])

RaceInit ==
    /\ authors = EmptyCollection
    /\ genres = EmptyCollection
    /\ books = Insert(EmptyCollection, StoredBook)
    /\ bookinstances = EmptyCollection
    /\ nextId = IdIndex(StoredBook._id) + 1
    /\ request = [p \in Procs |-> RaceReq("none", NoId, NoBody, "idle", NoneFound)]
    /\ calls = [p \in Procs |-> <<>>]

RaceNext ==
    \E p \in Procs :
        \/ genre_create_post_findOne(p)
        \/ genre_create_post_save(p)
        \/ book_delete_post_all(p)
        \/ book_delete_post_findById(p)
        \/ book_delete_post_find(p)
        \/ book_delete_post_findByIdAndDelete(p)
        \/ bookinstance_create_post_save(p)
        \/ finishOf(p)

RaceSpec == RaceInit /\ [][RaceNext]_vars

-----------------------------------------------------------------------------
(* Store operations that fail. Each handler is the sequence of its awaits  *)
(* and response calls along one branch; the data of the request are left   *)
(* out, every branch can be taken. request holds the handler and what is   *)
(* left of its branch, calls is the log of what the handler has done.      *)

\* The methods that write to the store.
WriteMethods == {"save", "findByIdAndDelete", "findByIdAndUpdate"}

\* await of one store operation, or of Promise.all([...]) of several, each
\* the model (or document) and the method called on it; rejected is the
\* position of the operation that failed, 0 when none did.
Await(ops) == [op |-> "await", ops |-> ops, rejected |-> 0]

\* An exception that the handler raises itself.
Throw(name) == [op |-> "throw", name |-> name]

\* Promise.all of the read of a record and of the records that refer to it.
JointReads(model, referring) ==
    Await(<< <<model, "findById">>, <<referring, "find">> >>)

AuthorControllerPaths == {
    <<"author_list", <<Await(<< <<"Author", "find">> >>), ResRender("author_list", NoBody)>> >>,
    <<"author_detail", <<JointReads("Author", "Book"), NextErr(NotFound("Author not found"))>> >>,
    <<"author_detail", <<JointReads("Author", "Book"), ResRender("author_detail", NoBody)>> >>,
    <<"author_create_get", <<ResRender("author_form", NoBody)>> >>,
    <<"author_create_post", <<ResRender("author_form", NoBody)>> >>,
    <<"author_create_post", <<Await(<< <<"author", "save">> >>),
                              ResRedirect(AuthorUrl(IdSeq[1]))>> >>,
    <<"author_delete_get", <<JointReads("Author", "Book"), ResRedirect(<<"/catalog/authors">>),
                             ResRender("author_delete", NoBody), Throw("Error")>> >>,
    <<"author_delete_get", <<JointReads("Author", "Book"), ResRender("author_delete", NoBody)>> >>,
    <<"author_delete_post", <<JointReads("Author", "Book"), ResRender("author_delete", NoBody)>> >>,
    <<"author_delete_post", <<JointReads("Author", "Book"),
                              Await(<< <<"Author", "findByIdAndDelete">> >>),
                              ResRedirect(<<"/catalog/authors">>)>> >>,
    <<"author_update_get", <<Await(<< <<"Author", "findById">> >>),
                             NextErr(NotFound("Author not found"))>> >>,
    <<"author_update_get", <<Await(<< <<"Author", "findById">> >>),
                             ResRender("author_form", NoBody)>> >>,
    <<"author_update_post", <<ResRender("author_form", NoBody)>> >>,
    <<"author_update_post", <<Await(<< <<"Author", "findByIdAndUpdate">> >>),
                              ResRedirect(AuthorUrl(IdSeq[1]))>> >> }

GenreControllerPaths == {
    <<"genre_list", <<Await(<< <<"Genre", "find">> >>), ResRender("genre_list", NoBody)>> >>,
    <<"genre_detail", <<JointReads("Genre", "Book"), NextErr(NotFound("Genre not found"))>> >>,
    <<"genre_detail", <<JointReads("Genre", "Book"), ResRender("genre_detail", NoBody)>> >>,
    <<"genre_create_get", <<ResRender("genre_form", NoBody)>> >>,
    <<"genre_create_post", <<ResRender("genre_form", NoBody)>> >>,
    <<"genre_create_post", <<Await(<< <<"Genre", "findOne">> >>),
                             ResRedirect(GenreUrl(IdSeq[1]))>> >>,
    <<"genre_create_post", <<Await(<< <<"Genre", "findOne">> >>),
                             Await(<< <<"genre", "save">> >>),
                             ResRedirect(GenreUrl(IdSeq[1]))>> >>,
    <<"genre_delete_get", <<JointReads("Genre", "Book"), ResRedirect(<<"/catalog/genres">>),
                            ResRender("genre_delete", NoBody), Throw("Error")>> >>,
    <<"genre_delete_get", <<JointReads("Genre", "Book"), ResRender("genre_delete", NoBody)>> >>,
    <<"genre_delete_post", <<JointReads("Genre", "Book"), ResRender("genre_delete", NoBody)>> >>,
    <<"genre_delete_post", <<JointReads("Genre", "Book"),
                             Await(<< <<"Genre", "findByIdAndDelete">> >>),
                             ResRedirect(<<"/catalog/genres">>)>> >>,
    <<"genre_update_get", <<Await(<< <<"Genre", "findById">> >>),
                            NextErr(NotFound("Genre not found"))>> >>,
    <<"genre_update_get", <<Await(<< <<"Genre", "findById">> >>),
                            ResRender("genre_form", NoBody)>> >>,
    <<"genre_update_post", <<ResRender("genre_form", NoBody)>> >>,
    <<"genre_update_post", <<Await(<< <<"Genre", "findByIdAndUpdate">> >>),
                             ResRedirect(GenreUrl(IdSeq[1]))>> >> }

FormReads == Await(<< <<"Author", "find">>, <<"Genre", "find">> >>)

BookControllerPaths == {
    <<"index", <<Await(<< <<"Book", "countDocuments">>,
                         <<"BookInstance", "countDocuments">>,
                         <<"BookInstance", "countDocuments">>,
                         <<"Author", "countDocuments">>,
                         <<"Genre", "countDocuments">> >>), ResRender("index", NoBody)>> >>,
    <<"book_list", <<Await(<< <<"Book", "find">> >>), ResRender("book_list", NoBody)>> >>,
    <<"book_detail", <<JointReads("Book", "BookInstance"), NextErr(NotFound("Book not found"))>> >>,
    <<"book_detail", <<JointReads("Book", "BookInstance"), ResRender("book_detail", NoBody)>> >>,
    <<"book_create_get", <<FormReads, ResRender("book_form", NoBody)>> >>,
    <<"book_create_post", <<FormReads, ResRender("book_form", NoBody)>> >>,
    <<"book_create_post", <<Throw("ValidationError")>> >>,
    <<"book_create_post", <<Await(<< <<"book", "save">> >>),
                            ResRedirect(BookUrl(IdSeq[1]))>> >>,
    <<"book_delete_get", <<JointReads("Book", "BookInstance"), ResRedirect(<<"/catalog/books">>),
                           ResRender("book_delete", NoBody), Throw("Error")>> >>,
    <<"book_delete_get", <<JointReads("Book", "BookInstance"), ResRender("book_delete", NoBody)>> >>,
    <<"book_delete_post", <<JointReads("Book", "BookInstance"), ResRender("book_delete", NoBody)>> >>,
    <<"book_delete_post", <<JointReads("Book", "BookInstance"),
                            Await(<< <<"Book", "findByIdAndDelete">> >>),
                            ResRedirect(<<"/catalog/books">>)>> >>,
    <<"book_update_get", <<Await(<< <<"Book", "findById">>, <<"Author", "find">>,
                                   <<"Genre", "find">> >>),
                           NextErr(NotFound("Book not found"))>> >>,
    <<"book_update_get", <<Await(<< <<"Book", "findById">>, <<"Author", "find">>,
                                   <<"Genre", "find">> >>),
                           ResRender("book_form", NoBody)>> >>,
    <<"book_update_post", <<FormReads, ResRender("book_form", NoBody)>> >>,
    <<"book_update_post", <<Await(<< <<"Book", "findByIdAndUpdate">> >>),
                            ResRedirect(BookUrl(IdSeq[1]))>> >>,
    <<"book_update_post", <<Await(<< <<"Book", "findByIdAndUpdate">> >>),
                            Throw("TypeError")>> >> }

BookInstanceControllerPaths == {
    <<"bookinstance_list", <<Await(<< <<"BookInstance", "find">> >>),
                             ResRender("bookinstance_list", NoBody)>> >>,
    <<"bookinstance_detail", <<Await(<< <<"BookInstance", "findById">> >>),
                               NextErr(NotFound("Book copy not found"))>> >>,
    <<"bookinstance_detail", <<Await(<< <<"BookInstance", "findById">> >>),
                               ResRender("bookinstance_detail", NoBody)>> >>,
    <<"bookinstance_create_get", <<Await(<< <<"Book", "find">> >>),
                                   ResRender("bookinstance_form", NoBody)>> >>,
    <<"bookinstance_create_post", <<Await(<< <<"Book", "find">> >>),
                                    ResRender("bookinstance_form", NoBody)>> >>,
    <<"bookinstance_create_post", <<Await(<< <<"Book", "find">> >>),
                                    Throw("TypeError")>> >>,
    <<"bookinstance_create_post", <<Throw("ValidationError")>> >>,
    <<"bookinstance_create_post", <<Await(<< <<"bookInstance", "save">> >>),
                                    ResRedirect(BookInstanceUrl(IdSeq[1]))>> >>,
    <<"bookinstance_delete_get", <<Await(<< <<"BookInstance", "findById">> >>),
                                   ResRedirect(<<"/catalog/bookinstances">>),
                                   ResRender("bookinstance_delete", NoBody), Throw("Error")>> >>,
    <<"bookinstance_delete_get", <<Await(<< <<"BookInstance", "findById">> >>),
                                   ResRender("bookinstance_delete", NoBody)>> >>,
    <<"bookinstance_delete_post", <<Await(<< <<"BookInstance", "findByIdAndDelete">> >>),
                                    ResRedirect(<<"/catalog/bookinstances">>)>> >>,
    <<"bookinstance_update_get", <<Await(<< <<"BookInstance", "findById">>,
                                           <<"Book", "find">> >>),
                                   NextErr(NotFound("Book copy not found"))>> >>,
    <<"bookinstance_update_get", <<Await(<< <<"BookInstance", "findById">>,
                                           <<"Book", "find">> >>),
                                   ResRender("bookinstance_form", NoBody)>> >>,
    <<"bookinstance_update_post", <<Await(<< <<"Book", "find">> >>),
                                    ResRender("bookinstance_form", NoBody)>> >>,
    <<"bookinstance_update_post", <<Await(<< <<"Book", "find">> >>),
                                    Throw("TypeError")>> >>,
    <<"bookinstance_update_post", <<Await(<< <<"BookInstance", "findByIdAndUpdate">> >>),
                                    ResRedirect(BookInstanceUrl(IdSeq[1]))>> >> }

Paths ==
    AuthorControllerPaths \cup GenreControllerPaths \cup BookControllerPaths
        \cup BookInstanceControllerPaths

NotRunning == [handler |-> "none", path |-> <<>>]

\* A request arrives and its handler is called.
receive ==
    /\ request = NotRunning
    /\ \E hp \in Paths : request' = [handler |-> hp[1], path |-> hp[2]]
    /\ calls' = <<>>
    /\ UNCHANGED <<store, nextId>>

AtStep(kind) == request.path # <<>> /\ Head(request.path).op \in kind

\* Every operation of the await resolves: the handler goes on.
resolve ==
    /\ AtStep({"await"})
    /\ calls' = Append(calls, Head(request.path))
    /\ request' = [request EXCEPT !.path = Tail(@)]
    /\ UNCHANGED <<store, nextId>>

\* A handler that catches the rejection and goes on.
reject_Swallowed ==
    /\ AtStep({"await"})
    /\ \E k \in DOMAIN Head(request.path).ops :
          calls' = Append(calls, [Head(request.path) EXCEPT !.rejected = k])
    /\ request' = [request EXCEPT !.path = Tail(@)]
    /\ UNCHANGED <<store, nextId>>

\* One operation of the await rejects (all of them have been issued): the
\* await throws, the handler is left, and asyncHandler passes the error to next.
reject ==
    /\ AtStep({"await"})
    /\ \E k \in DOMAIN Head(request.path).ops :
          calls' = calls \o <<[Head(request.path) EXCEPT !.rejected = k],
                              NextErr(Thrown("MongoError"))>>
    /\ request' = [request EXCEPT !.path = <<>>]
    /\ UNCHANGED <<store, nextId>>

\* res.render, res.redirect or next(err)
respond ==
    /\ AtStep({"render", "redirect", "next"})
    /\ calls' = Append(calls, Head(request.path))
    /\ request' = [request EXCEPT !.path = Tail(@)]
    /\ UNCHANGED <<store, nextId>>

\* The handler throws: it is left, and asyncHandler passes the error to next.
throw ==
    /\ AtStep({"throw"})
    /\ calls' = Append(calls, NextErr(Thrown(Head(request.path).name)))
    /\ request' = [request EXCEPT !.path = <<>>]
    /\ UNCHANGED <<store, nextId>>

\* The handler has returned.
return ==
    /\ request # NotRunning
    /\ request.path = <<>>
    /\ request' = NotRunning
    /\ calls' = <<>>
    /\ UNCHANGED <<store, nextId>>

FailInit ==
    /\ authors = EmptyCollection
    /\ genres = EmptyCollection
    /\ books = EmptyCollection
    /\ bookinstances = EmptyCollection
    /\ nextId = 1
    /\ request = NotRunning
    /\ calls = <<>>

FailNext == receive \/ resolve \/ reject \/ respond \/ throw \/ return

FailSpec == FailInit /\ [][FailNext]_vars

-----------------------------------------------------------------------------
(* Properties                                                              *)

Handler == request.handler

\* s and t differ at most in the case of their letters.
SameUpToCase(s, t) ==
    /\ Len(s) = Len(t)
    /\ \A i \in DOMAIN s :
          \/ s[i] = t[i]
          \/ \E k \in DOMAIN UpperSeq : {s[i], t[i]} = {UpperSeq[k], LowerSeq[k]}

\* C1: a delete-submit for a Book that BookInstances reference removes no
\* Book, leaves the BookInstances as they are, and answers with the
\* delete-confirmation view of that Book listing exactly those BookInstances.
C1_BookDeleteRefused ==
    [][\A b \in DOMAIN books :
          (/\ request'.handler = "book_delete_post"
           /\ request'.params.id = b
           /\ \E c \in DOMAIN bookinstances : bookinstances[c].book = b)
          => /\ books' = books
             /\ bookinstances' = bookinstances
             /\ Len(calls') = 1
             /\ calls'[1].op = "render"
             /\ calls'[1].view = "book_delete"
             /\ calls'[1].locals.book._id = b
             /\ {calls'[1].locals.book_instances[k] :
                    k \in DOMAIN calls'[1].locals.book_instances}
                = {bookinstances[c] : c \in {d \in DOMAIN bookinstances :
                                                 bookinstances[d].book = b}}]_vars

C1_Witness ==
    /\ Handler = "book_delete_post"
    /\ request.params.id \in DOMAIN books
    /\ request.body.book_id = request.params.id
    /\ \E c \in DOMAIN bookinstances : bookinstances[c].book = request.params.id
    /\ calls[1].op = "render"

\* The name a Genre create-submit stores: the submitted name trimmed, then escaped.
SubmittedName(req) == Escape(Trim(req.body.name.s))

\* C2: a valid Genre create-submit whose name differs at most in letter case
\* from the name of a stored Genre inserts nothing and redirects to the
\* detail view of a stored Genre with such a name.
C2_GenreCreateRedirectsToExisting ==
    [][(/\ request'.handler = "genre_create_post"
        /\ request'.body.name.t = "string"
        /\ Len(Trim(request'.body.name.s)) >= 3
        /\ \E g \in DOMAIN genres : SameUpToCase(genres[g].name, SubmittedName(request')))
       => /\ genres' = genres
          /\ \E g \in DOMAIN genres :
                /\ SameUpToCase(genres[g].name, SubmittedName(request'))
                /\ calls' = <<ResRedirect(<<"/catalog/genre/", g>>)>>]_vars

C2_Witness ==
    /\ Handler = "genre_create_post"
    /\ Len(calls) = 1
    /\ calls[1].op = "redirect"
    /\ \E g \in DOMAIN genres :
          /\ calls[1].url = <<"/catalog/genre/", g>>
          /\ genres[g].name # SubmittedName(request)
          /\ SameUpToCase(genres[g].name, SubmittedName(request))

\* C3: no two stored Genres have names that are equal when letter case is
\* not compared.
C3_GenreNamesUnique ==
    \A g, h \in DOMAIN genres :
        g # h => ~SameUpToCase(genres[g].name, genres[h].name)

\* The identifiers that the store has handed out so far.
Allocated == {IdSeq[i] : i \in 1..(nextId - 1)}

ListedIds(call, key) == {call.locals[key][k]._id : k \in DOMAIN call.locals[key]}

Collection(entity) ==
    CASE entity = "author" -> authors
      [] entity = "genre" -> genres
      [] entity = "book" -> books
      [] entity = "bookinstance" -> bookinstances

\* The detail and update routes, each with its entity.
ByIdRoutes == {
    <<"author_detail", "author">>, <<"author_update_get", "author">>,
    <<"author_update_post", "author">>,
    <<"genre_detail", "genre">>, <<"genre_update_get", "genre">>,
    <<"genre_update_post", "genre">>,
    <<"book_detail", "book">>, <<"book_update_get", "book">>,
    <<"book_update_post", "book">>,
    <<"bookinstance_detail", "bookinstance">>,
    <<"bookinstance_update_get", "bookinstance">>,
    <<"bookinstance_update_post", "bookinstance">> }

\* C5: a detail or update request (form or submit) for an identifier that
\* resolves to no stored record forwards an error of status 404 and nothing
\* else, and leaves the store unchanged.
C5_AbsentIdIsNotFound ==
    [][\A r \in ByIdRoutes :
          (/\ request'.handler = r[1]
           /\ request'.params.id \notin DOMAIN Collection(r[2]))
          => /\ store' = store
             /\ Len(calls') = 1
             /\ calls'[1].op = "next"
             /\ "status" \in DOMAIN calls'[1].err
             /\ calls'[1].err.status = 404]_vars

\* The delete routes, each with its entity and the list view of the entity.
DeleteRoutes == {
    <<"author_delete_get", "author", <<"/catalog/authors">> >>,
    <<"author_delete_post", "author", <<"/catalog/authors">> >>,
    <<"genre_delete_get", "genre", <<"/catalog/genres">> >>,
    <<"genre_delete_post", "genre", <<"/catalog/genres">> >>,
    <<"book_delete_get", "book", <<"/catalog/books">> >>,
    <<"book_delete_post", "book", <<"/catalog/books">> >>,
    <<"bookinstance_delete_get", "bookinstance", <<"/catalog/bookinstances">> >>,
    <<"bookinstance_delete_post", "bookinstance", <<"/catalog/bookinstances">> >> }

\* C6: a delete request (confirmation or submit) for an identifier that
\* resolves to no stored record is answered by the redirect to the list view
\* of the entity and by nothing else, and leaves the store unchanged.
C6_AbsentIdDeleteRedirects ==
    [][\A r \in DeleteRoutes :
          (/\ request'.handler = r[1]
           /\ request'.params.id \notin DOMAIN Collection(r[2]))
          => /\ store' = store
             /\ calls' = <<ResRedirect(r[3])>>]_vars

\* The create-submit and update-submit routes: entity, form view, draft key.
SubmitRoutes == {
    <<"author_create_post", "author", "author_form", "author">>,
    <<"author_update_post", "author", "author_form", "author">>,
    <<"genre_create_post", "genre", "genre_form", "genre">>,
    <<"genre_update_post", "genre", "genre_form", "genre">>,
    <<"book_create_post", "book", "book_form", "book">>,
    <<"book_update_post", "book", "book_form", "book">>,
    <<"bookinstance_create_post", "bookinstance", "bookinstance_form", "bookinstance">>,
    <<"bookinstance_update_post", "bookinstance", "bookinstance_form", "bookinstance">> }

\* The submitted string of a field: empty when the field is absent.
Raw(body, f) == IF body[f].t = "string" THEN body[f].s ELSE <<>>

AllAlphanumeric(s) == \A i \in DOMAIN s : s[i] \in Letters \cup Digits

\* The rules of section 4.3 that a submitted form violates, as <<field, rule>>.
ViolatedRules(entity, body) ==
    CASE entity = "author" ->
            {<<f, "empty">> : f \in {g \in {"first_name", "family_name"} :
                                        Trim(Raw(body, g)) = <<>>}}
            \cup {<<f, "alphanumeric">> : f \in {g \in {"first_name", "family_name"} :
                        Trim(Raw(body, g)) = <<>> \/ ~AllAlphanumeric(Trim(Raw(body, g)))}}
            \cup {<<f, "date">> : f \in {g \in {"date_of_birth", "date_of_death"} :
                        Raw(body, g) # <<>> /\ Raw(body, g) # Year}}
      [] entity = "genre" ->
            {<<f, "length">> : f \in {g \in {"name"} : Len(Trim(Raw(body, g))) < 3}}
      [] entity = "book" ->
            {<<f, "empty">> : f \in {g \in {"title", "author", "summary", "isbn"} :
                                        Trim(Raw(body, g)) = <<>>}}
      [] entity = "bookinstance" ->
            {<<f, "empty">> : f \in {g \in {"book", "imprint"} :
                                        Trim(Raw(body, g)) = <<>>}}
            \cup {<<f, "date">> : f \in {g \in {"due_back"} :
                        Raw(body, g) # <<>> /\ Raw(body, g) # Year}}

\* C7: a create-submit or update-submit with one or more field errors leaves
\* the store unchanged and is answered by one render of its form, with the
\* draft and a non-empty error list.
C7_ValidationFailedRerenders ==
    [][\A r \in SubmitRoutes :
          (/\ request'.handler = r[1]
           /\ ViolatedRules(r[2], request'.body) # {})
          => /\ store' = store
             /\ Len(calls') = 1
             /\ calls'[1].op = "render"
             /\ calls'[1].view = r[3]
             /\ r[4] \in DOMAIN calls'[1].locals
             /\ "errors" \in DOMAIN calls'[1].locals
             /\ calls'[1].locals.errors # <<>>]_vars

ErrorsOf(call, f) == {k \in DOMAIN call.locals.errors : call.locals.errors[k].path = f}

\* C8: the error list of a re-rendered form has, for every field, one entry
\* per rule the field violates: validation stops neither at the first
\* failing field nor at the first failing rule of a field.
C8_OneErrorPerViolatedRule ==
    [][\A r \in SubmitRoutes :
          (/\ request'.handler = r[1]
           /\ calls'[1].op = "render")
          => \A f \in DOMAIN request'.body :
                Cardinality(ErrorsOf(calls'[1], f))
                = Cardinality({v \in ViolatedRules(r[2], request'.body) : v[1] = f})]_vars

\* An Author form whose first_name is blank (two errors) and whose
\* family_name is not alphanumeric (one more).
C8_Witness ==
    /\ Handler = "author_create_post"
    /\ Trim(Raw(request.body, "first_name")) = <<>>
    /\ calls[1].op = "render"
    /\ Cardinality(ErrorsOf(calls[1], "first_name")) = 2
    /\ Cardinality(ErrorsOf(calls[1], "family_name")) = 1

\* The string fields of each entity.
StringFields(entity) ==
    CASE entity = "author" -> {"first_name", "family_name"}
      [] entity = "genre" -> {"name"}
      [] entity = "book" -> {"title", "summary", "isbn"}
      [] entity = "bookinstance" -> {"imprint", "status"}

IsSanitized(doc, entity, body) ==
    \A f \in StringFields(entity) \cap DOMAIN doc :
        body[f].t = "string" => doc[f] = Escape(Trim(body[f].s))

\* C9: the string fields of the draft that a create-submit or update-submit
\* shows again, and of the record that it stores, are the submitted values
\* trimmed and escaped.
C9_DraftIsSanitized ==
    [][\A r \in SubmitRoutes :
          request'.handler = r[1]
          => /\ (calls'[1].op = "render")
                => IsSanitized(calls'[1].locals[r[4]], r[2], request'.body)
             /\ (calls'[1].op = "redirect" /\ Collection(r[2])' # Collection(r[2]))
                => IsSanitized(Collection(r[2])'[calls'[1].url[2]], r[2],
                               request'.body)]_vars

\* C10: every stored BookInstance has one of the four statuses.
C10_StatusInEnum ==
    \A c \in DOMAIN bookinstances :
        bookinstances[c].status \in
            {<<"A", "v", "a", "i", "l", "a", "b", "l", "e">>,
             <<"M", "a", "i", "n", "t", "e", "n", "a", "n", "c", "e">>,
             <<"L", "o", "a", "n", "e", "d">>,
             <<"R", "e", "s", "e", "r", "v", "e", "d">>}

\* The genre input of a Book form as a set of identifier strings: absent is
\* the empty set, one value a singleton, an array its entries.
NormalizedGenre(g) ==
    IF g.t = "undefined" THEN {}
    ELSE IF g.t = "array" THEN {g.a[k].s : k \in DOMAIN g.a}
    ELSE {g.s}

\* C11: a Book update-submit with valid fields for a stored Book leaves that
\* Book with exactly the submitted genres (none when no genre is selected),
\* whatever genres it had before, and redirects to its detail view.
C11_UpdateReplacesGenres ==
    [][\A b \in DOMAIN books :
          (/\ request'.handler = "book_update_post"
           /\ request'.params.id = b
           /\ ViolatedRules("book", request'.body) = {})
          => /\ {<<g>> : g \in Range(books'[b].genre)}
                = NormalizedGenre(request'.body.genre)
             /\ calls' = <<ResRedirect(<<"/catalog/book/", b>>)>>]_vars

\* A Book update-submit with no genre selected has been answered by the
\* redirect and the Book has no genres.
C11_Witness ==
    /\ Handler = "book_update_post"
    /\ request.params.id \in DOMAIN books
    /\ request.body.genre.t = "undefined"
    /\ books[request.params.id].genre = <<>>
    /\ calls = <<ResRedirect(<<"/catalog/book/", request.params.id>>)>>

\* What the detail view shows for the Book with identifier id agrees with the
\* submitted form: the three strings as submitted, the Author and the Genres
\* that the form names.
DetailShows(book, body) ==
    /\ ~IsNull(book)
    /\ \A f \in {"title", "summary", "isbn"} :
          /\ f \in DOMAIN book
          /\ book[f] = body[f].s
    /\ "author" \in DOMAIN book
    /\ ~IsNull(book.author)
    /\ <<book.author._id>> = body.author.s
    /\ {<<book.genre[k]._id>> : k \in DOMAIN book.genre} = NormalizedGenre(body.genre)

\* C12: when a Book create-submit with valid fields is answered by the
\* redirect, the detail view of the redirect target, as book_detail renders
\* it from the store the submit leaves, shows exactly the submitted title,
\* author, summary, isbn and genres, under a non-empty identifier whose URL
\* is the redirect target.
C12_BookRoundTrip ==
    [][(/\ request'.handler = "book_create_post"
        /\ ViolatedRules("book", request'.body) = {})
       => /\ Len(calls') = 1
          /\ calls'[1].op = "redirect"
          /\ \E id \in Ids :
                /\ id # NoId
                /\ calls'[1].url = BookUrl(id)
                /\ DetailShows(BookPopulated(id)', request'.body)]_vars

\* C13: a BookInstance create-submit with valid book and imprint stores a
\* new record; when status is absent the record's status is Maintenance, and
\* when due_back is absent its due_back is the time of creation.
C13_CreateDefaults ==
    [][(/\ request'.handler = "bookinstance_create_post"
        /\ ViolatedRules("bookinstance", request'.body) = {}
        /\ \/ request'.body.status.t = "undefined"
           \/ request'.body.due_back.t = "undefined")
       => \E c \in DOMAIN bookinstances' \ DOMAIN bookinstances :
             /\ calls' = <<ResRedirect(<<"/catalog/bookinstance/", c>>)>>
             /\ request'.body.status.t = "undefined"
                   => bookinstances'[c].status = Maintenance
             /\ request'.body.due_back.t = "undefined"
                   => bookinstances'[c].due_back = Now]_vars

\* The update-submit routes: entity and the prefix of its detail URLs.
UpdateRoutes == {
    <<"author_update_post", "author", "/catalog/author/">>,
    <<"genre_update_post", "genre", "/catalog/genre/">>,
    <<"book_update_post", "book", "/catalog/book/">>,
    <<"bookinstance_update_post", "bookinstance", "/catalog/bookinstance/">> }

\* C14: an update-submit, whatever identifier it carries, leaves every
\* collection with the identifiers it had; when the identifier names a stored
\* record and the fields are valid, the other collections and the other
\* records of the collection are unchanged, the record holds the submitted
\* strings, and the response is the redirect to the detail view of that
\* identifier.
C14_UpdateInPlace ==
    [][\A r \in UpdateRoutes :
          request'.handler = r[1]
          => /\ \A e \in {"author", "genre", "book", "bookinstance"} :
                   DOMAIN Collection(e)' = DOMAIN Collection(e)
             /\ (/\ request'.params.id \in DOMAIN Collection(r[2])
                 /\ ViolatedRules(r[2], request'.body) = {})
                => /\ \A e \in {"author", "genre", "book", "bookinstance"} \ {r[2]} :
                         Collection(e)' = Collection(e)
                   /\ \A j \in DOMAIN Collection(r[2]) \ {request'.params.id} :
                         Collection(r[2])'[j] = Collection(r[2])[j]
                   /\ IsSanitized(Collection(r[2])'[request'.params.id], r[2],
                                  request'.body)
                   /\ calls' = <<ResRedirect(<<r[3], request'.params.id>>)>>]_vars

\* A Genre update-submit has renamed one of two stored Genres and has been
\* answered by the redirect to its detail view.
C14_Witness ==
    /\ Handler = "genre_update_post"
    /\ request.params.id \in DOMAIN genres
    /\ Cardinality(DOMAIN genres) = 2
    /\ request.body.name.t = "string"
    /\ genres[request.params.id].name = SubmittedName(request)
    /\ \E g \in DOMAIN genres : genres[g].name # SubmittedName(request)
    /\ calls = <<ResRedirect(<<"/catalog/genre/", request.params.id>>)>>

\* C15: neither guard is re-evaluated when its action is taken. A Genre
\* create-submit whose lookup found nothing inserts its Genre in its next
\* step, and a Book delete-submit whose reads found no BookInstance removes
\* the Book in its next step, whatever the other request has stored in
\* between.
C15_GuardsNotAtomic ==
    [][\A p \in Procs :
          /\ (/\ At(p, "genre_create_post", "findOne")
              /\ IsNull(request[p].found.genreExists)
              /\ request'[p].pc = "done")
             => \E g \in DOMAIN genres' \ DOMAIN genres :
                   /\ genres'[g].name = SubmittedName(request[p])
                   /\ calls'[p] = <<ResRedirect(<<"/catalog/genre/", g>>)>>
          /\ (/\ At(p, "book_delete_post", "all")
              /\ request'[p].pc = "done"
              /\ request[p].found.bookInstances = <<>>)
             => /\ request[p].body.book_id \notin DOMAIN books'
                /\ bookinstances' = bookinstances
                /\ calls'[p] = <<ResRedirect(<<"/catalog/books">>)>>]_vars

\* Both races have happened: two stored Genres have names equal up to case;
\* and a Book delete-submit that read the Book and none of its BookInstances
\* has removed the Book, while the other request, a BookInstance
\* create-submit, has stored a BookInstance of that Book.
C15_Witness ==
    /\ \E g, h \in DOMAIN genres :
          g # h /\ SameUpToCase(genres[g].name, genres[h].name)
    /\ \E p, q \in Procs :
          /\ At(p, "book_delete_post", "done")
          /\ request[p].body.book_id = request[p].params.id
          /\ ~IsNull(request[p].found.book)
          /\ request[p].found.bookInstances = <<>>
          /\ request[p].params.id \notin DOMAIN books
          /\ calls[p] = <<ResRedirect(<<"/catalog/books">>)>>
          /\ At(q, "bookinstance_create_post", "done")
          /\ \E c \in DOMAIN bookinstances :
                /\ calls[q] = <<ResRedirect(<<"/catalog/bookinstance/", c>>)>>
                /\ bookinstances[c].book = request[p].params.id

\* The positions of the log at which an await failed.
Rejections == {k \in DOMAIN calls : calls[k].op = "await" /\ calls[k].rejected # 0}

IsWrite(call) ==
    call.op = "await" /\ \E k \in DOMAIN call.ops : call.ops[k][2] \in WriteMethods

\* C16: once a store operation of a request has failed, the request has made
\* no response before the failure, and after it makes exactly one, which
\* passes an error to the error handler; it renders no view, sends no
\* redirect and issues no further store operation, so no write.
C16_StoreFailureIsForwarded ==
    \A k \in Rejections :
        /\ \A j \in 1..(k - 1) : calls[j].op = "await"
        /\ Len(calls) = k + 1
        /\ calls[k + 1].op = "next"
        /\ "status" \notin DOMAIN calls[k + 1].err
        /\ \A j \in (k + 1)..Len(calls) :
              calls[j].op \notin {"render", "redirect"} /\ ~IsWrite(calls[j])

\* The second read of the reads that book_detail issues jointly has failed,
\* and the error has been passed on.
C16_Witness ==
    /\ request.handler = "book_detail"
    /\ Len(calls) = 2
    /\ calls[1].op = "await"
    /\ calls[1].rejected = 2
    /\ calls[2] = NextErr(Thrown("MongoError"))

\* The stored records that refer to the record x of the entity.
Dependents(entity, x) ==
    CASE entity = "author" ->
            {b \in DOMAIN books : "author" \in DOMAIN books[b] /\ books[b].author = x}
      [] entity = "genre" ->
            {b \in DOMAIN books : x \in Range(books[b].genre)}
      [] entity = "book" ->
            {c \in DOMAIN bookinstances :
                "book" \in DOMAIN bookinstances[c] /\ bookinstances[c].book = x}

\* C17: whatever identifiers a delete-submit of an Author, Genre or Book
\* carries in its URL and in its form, a record that it removes has no
\* dependents when it is removed.
C17_DeletedHasNoDependents ==
    [][\A e \in {"author", "genre", "book"} :
          request'.handler \in {"author_delete_post", "genre_delete_post",
                                "book_delete_post"}
          => \A x \in DOMAIN Collection(e) \ DOMAIN Collection(e)' :
                Dependents(e, x) = {}]_vars

\* C18: a request that has been handled has been answered by one response
\* action: one render, one redirect, or one error passed to next.
C18_ExactlyOneResponse ==
    ~Idle => /\ Len(calls) = 1
             /\ calls[1].op \in {"render", "redirect", "next"}

====
